---- MODULE Spec2Model ----
(***************************************************************************)
(* Model of the SMTP-to-SendGrid relay (src/main.go): the session          *)
(* callbacks Mail, Rcpt, Data, Reset, AuthPlain and Logout that the SMTP   *)
(* engine invokes, and the translation of one DATA payload into a send     *)
(* request.                                                                *)
(*                                                                         *)
(* A Go string is a sequence of one-character strings, so that suffix,     *)
(* substring, trimming and case folding are computed and not assumed.      *)
(* A byte stream (the DATA payload, a message body) is a sequence of       *)
(* lines; a line is a header field, the blank line, a multipart delimiter  *)
(* or a line of text.                                                      *)
(***************************************************************************)
EXTENDS Integers, Sequences, FiniteSets, TLC

VARIABLES
    config,     \* the *Config shared by the Backend and every Session
    sess,       \* session id -> the Session struct, or NoSession
    last,       \* the last callback: its arguments, its result, its send request, its log record
    ghost       \* history per session: Rcpt arguments and Mail outcome since the last Reset

vars == <<config, sess, last, ghost>>

-----------------------------------------------------------------------------
(* Bounds *)

MaxRcpt == 2        \* Rcpt calls accumulated in one recipient list
MaxDomLen == 3      \* length of the generated sender domains

-----------------------------------------------------------------------------
(* package strings *)

Upper == {"A","B","C","D","E","F","G","H","I","J","K","L","M",
          "N","O","P","Q","R","S","T","U","V","W","X","Y","Z"}

LowerOf(c) ==
    CASE c = "A" -> "a" [] c = "B" -> "b" [] c = "C" -> "c" [] c = "D" -> "d"
      [] c = "E" -> "e" [] c = "F" -> "f" [] c = "G" -> "g" [] c = "H" -> "h"
      [] c = "I" -> "i" [] c = "J" -> "j" [] c = "K" -> "k" [] c = "L" -> "l"
      [] c = "M" -> "m" [] c = "N" -> "n" [] c = "O" -> "o" [] c = "P" -> "p"
      [] c = "Q" -> "q" [] c = "R" -> "r" [] c = "S" -> "s" [] c = "T" -> "t"
      [] c = "U" -> "u" [] c = "V" -> "v" [] c = "W" -> "w" [] c = "X" -> "x"
      [] c = "Y" -> "y" [] c = "Z" -> "z" [] OTHER -> c

ToLower(s) == [i \in 1..Len(s) |-> LowerOf(s[i])]

HasSuffix(s, suffix) ==
    /\ Len(s) >= Len(suffix)
    /\ SubSeq(s, Len(s) - Len(suffix) + 1, Len(s)) = suffix

HasPrefix(s, prefix) ==
    /\ Len(s) >= Len(prefix)
    /\ SubSeq(s, 1, Len(prefix)) = prefix

Contains(s, substr) ==
    \E i \in 1..(Len(s) + 1) :
        /\ i + Len(substr) - 1 <= Len(s)
        /\ SubSeq(s, i, i + Len(substr) - 1) = substr

\* position of the first c in s, 0 when there is none
Index(s, c) ==
    IF \E i \in 1..Len(s) : s[i] = c
    THEN CHOOSE i \in 1..Len(s) : s[i] = c /\ \A j \in 1..(i - 1) : s[j] # c
    ELSE 0

\* position of the last c in s, 0 when there is none
LastIndex(s, c) ==
    IF \E i \in 1..Len(s) : s[i] = c
    THEN CHOOSE i \in 1..Len(s) : s[i] = c /\ \A j \in (i + 1)..Len(s) : s[j] # c
    ELSE 0

\* strings.Trim: drop every leading and trailing character of cutset
Trim(s, cutset) ==
    IF \A i \in 1..Len(s) : s[i] \in cutset
    THEN << >>
    ELSE LET lo == CHOOSE i \in 1..Len(s) :
                       s[i] \notin cutset /\ \A j \in 1..(i - 1) : s[j] \in cutset
             hi == CHOOSE i \in 1..Len(s) :
                       s[i] \notin cutset /\ \A j \in (i + 1)..Len(s) : s[j] \in cutset
         IN  SubSeq(s, lo, hi)

TrimSpace(s) == Trim(s, {" "})

\* strings.Split(s, sep) for a one-character separator
RECURSIVE Split(_, _)
Split(s, sep) ==
    LET i == Index(s, sep)
    IN  IF i = 0 THEN << s >>
        ELSE << SubSeq(s, 1, i - 1) >> \o Split(SubSeq(s, i + 1, Len(s)), sep)

\* the character U+00E9, and the bytes of a character in UTF-8: two for
\* U+00E9, one for an ASCII character
eacute == "U+00E9"

Utf8(c) == IF c = eacute THEN <<"0xC3", "0xA9">> ELSE << c >>

\* a Go string as it is stored: the UTF-8 bytes of its characters; len and
\* slicing count these bytes
RECURSIVE Bytes(_)
Bytes(s) == IF s = << >> THEN << >> ELSE Utf8(Head(s)) \o Bytes(Tail(s))

\* all sequences over S of length 1..n
RECURSIVE SeqsUpTo(_, _)
SeqsUpTo(S, n) ==
    IF n = 0 THEN {}
    ELSE LET shorter == SeqsUpTo(S, n - 1)
         IN  {<< c >> : c \in S} \cup shorter
               \cup {t \o << c >> : t \in shorter, c \in S}

-----------------------------------------------------------------------------
(* Errors: the values the callbacks return *)

Nil == [kind |-> "nil", status |-> 0, body |-> << >>]

Err(kind) == [kind |-> kind, status |-> 0, body |-> << >>]

ErrStatus(status, body) ==
    [kind |-> "sendgrid returned status", status |-> status, body |-> body]

-----------------------------------------------------------------------------
(* Configuration *)

\* the ALLOWED_SENDERS part of loadConfig: split on commas, trim, drop empties
RECURSIVE KeepSenders(_)
KeepSenders(parts) ==
    IF parts = << >> THEN << >>
    ELSE LET sender == TrimSpace(Head(parts))
         IN  (IF sender # << >> THEN << sender >> ELSE << >>)
               \o KeepSenders(Tail(parts))

loadConfig(allowedSenders) ==
    [AllowedSenders |->
        IF allowedSenders # << >>
        THEN KeepSenders(Split(allowedSenders, ","))
        ELSE << >>]

\* values of the ALLOWED_SENDERS environment variable
EnvAllowed ==
    { << >>,
      <<"b",".","c","o","m">>,
      <<"B",".","c","o","m",","," ","d",".","c","o","m",",">> }

-----------------------------------------------------------------------------
(* Sessions and the envelope callbacks *)

SessionIds == {"s1", "s2"}

\* the connections the engine serves in Spec
Sessions == {"s1"}

NoSession == [live |-> FALSE, from |-> << >>, to |-> << >>]

\* Backend.NewSession: a Session with zero-valued from and to
NewSessionValue == [live |-> TRUE, from |-> << >>, to |-> << >>]

\* senderAllowed comparing the configured domain as written
senderAllowed_CaseSensitive(cfg, from) ==
    LET fromLower == ToLower(from)
    IN  \E i \in 1..Len(cfg.AllowedSenders) :
            LET domain == cfg.AllowedSenders[i]
            IN  \/ HasSuffix(fromLower, <<"@">> \o domain)
                \/ HasSuffix(fromLower, <<".">> \o domain \o <<">">>)

\* the allow-list loop of Session.Mail
senderAllowed(cfg, from) ==
    LET fromLower == ToLower(from)
    IN  \E i \in 1..Len(cfg.AllowedSenders) :
            LET domain == cfg.AllowedSenders[i]
            IN  \/ HasSuffix(fromLower, <<"@">> \o ToLower(domain))
                \/ HasSuffix(fromLower, <<".">> \o ToLower(domain) \o <<">">>)

\* MailStep storing the sender before the allow-list check
MailStep_StoreFirst(cfg, sn, from) ==
    IF Len(cfg.AllowedSenders) > 0 /\ ~senderAllowed(cfg, from)
    THEN [err |-> Err("sender domain not allowed"), sess |-> [sn EXCEPT !.from = from]]
    ELSE [err |-> Nil, sess |-> [sn EXCEPT !.from = from]]

\* Session.Mail: the returned error and the session it leaves
MailStep(cfg, sn, from) ==
    IF Len(cfg.AllowedSenders) > 0 /\ ~senderAllowed(cfg, from)
    THEN [err |-> Err("sender domain not allowed"), sess |-> sn]
    ELSE [err |-> Nil, sess |-> [sn EXCEPT !.from = from]]

\* RcptStep dropping a recipient the list already holds
RcptStep_Dedup(sn, to) ==
    IF \E i \in 1..Len(sn.to) : sn.to[i] = to
    THEN [err |-> Nil, sess |-> sn]
    ELSE [err |-> Nil, sess |-> [sn EXCEPT !.to = Append(sn.to, to)]]

\* Session.Rcpt
RcptStep(sn, to) ==
    [err |-> Nil, sess |-> [sn EXCEPT !.to = Append(sn.to, to)]]

\* ResetStep clearing the sender only
ResetStep_KeepTo(sn) ==
    [sn EXCEPT !.from = << >>]

\* Session.Reset
ResetStep(sn) ==
    [sn EXCEPT !.from = << >>, !.to = << >>]

\* AuthPlainStep refusing an empty user name
AuthPlainStep_RequireUser(sn, username, password) ==
    IF username = << >>
    THEN [err |-> Err("invalid credentials"), sess |-> sn]
    ELSE [err |-> Nil, sess |-> sn]

\* Session.AuthPlain: logs and returns nil
AuthPlainStep(sn, username, password) ==
    [err |-> Nil, sess |-> sn]

\* Session.Logout: logs and returns nil
LogoutStep(sn) ==
    [err |-> Nil, sess |-> sn]

-----------------------------------------------------------------------------
(* Inputs of the envelope callbacks *)

a_b_com == <<"a","@","b",".","c","o","m">>
A_B_COM == <<"A","@","B",".","C","O","M">>
x_evil_com == <<"x","@","e","v","i","l",".","c","o","m">>
u_s_b_com_gt == <<"<","u","@","s",".","b",".","c","o","m",">">>
c_d_com == <<"c","@","d",".","c","o","m">>
e_d_com_br == <<"<","e","@","d",".","c","o","m",">">>
nobody_br == <<"<","n","o","b","o","d","y",">">>

\* MAIL FROM arguments, the null reverse-path included
Senders == { << >>, a_b_com, A_B_COM, x_evil_com, u_s_b_com_gt }

\* RCPT TO arguments
Recipients == { c_d_com, nobody_br }

Credentials == { << >>, <<"u">> }

-----------------------------------------------------------------------------
(* Byte streams as lines *)

Hdr(name, value) == [k |-> "hdr", name |-> name, v |-> value, close |-> FALSE]
Blank == [k |-> "blank", name |-> "", v |-> << >>, close |-> FALSE]
Text(t) == [k |-> "text", name |-> "", v |-> t, close |-> FALSE]
\* "--boundary" and the closing "--boundary--"
Delim(b) == [k |-> "delim", name |-> "", v |-> b, close |-> FALSE]
DelimEnd(b) == [k |-> "delim", name |-> "", v |-> b, close |-> TRUE]

\* index of the first position of lines, from i on, that satisfies the
\* predicate given as the set of matching positions; 0 when there is none
FirstIn(positions, i) ==
    IF \E j \in positions : j >= i
    THEN CHOOSE j \in positions : j >= i /\ \A m \in positions : m >= i => j <= m
    ELSE 0

\* textproto header block starting at lines[i]: the fields up to the blank
\* line. status "ok": blank line found at position end; "eof": the input
\* ends inside the block; "bad": a line that is no header field
ReadHeaderBlock(lines, i) ==
    LET stop == FirstIn({j \in 1..Len(lines) : lines[j].k # "hdr"}, i)
    IN  IF stop = 0
        THEN [status |-> "eof", fields |-> SubSeq(lines, i, Len(lines)), end |-> Len(lines)]
        ELSE IF lines[stop].k = "blank"
        THEN [status |-> "ok", fields |-> SubSeq(lines, i, stop - 1), end |-> stop]
        ELSE [status |-> "bad", fields |-> << >>, end |-> stop]

\* Header.Get: the first value of the field, "" when absent
Get(fields, name) ==
    LET at == FirstIn({j \in 1..Len(fields) : fields[j].name = name}, 1)
    IN  IF at = 0 THEN << >> ELSE fields[at].v

\* the Message for a header block: the fields, and the rest of the input as Body
messageOf(data, hb) ==
    IF hb.status = "bad" \/ (hb.status = "eof" /\ hb.fields = << >>)
    THEN [err |-> TRUE, Header |-> << >>, Body |-> << >>]
    ELSE [err |-> FALSE, Header |-> hb.fields,
          Body |-> SubSeq(data, hb.end + 1, Len(data))]

\* mail.ReadMessage (go 1.22): the header block, then the rest as Body; an
\* input that ends inside a non-empty header block is a message with an
\* empty body
ReadMessage(data) == messageOf(data, ReadHeaderBlock(data, 1))

-----------------------------------------------------------------------------
(* package mime *)

TSpecials == {"(", ")", "<", ">", "@", ",", ";", ":", "\\", "\"", "/", "[", "]", "?", "="}

IsToken(s) ==
    /\ s # << >>
    /\ \A i \in 1..Len(s) : s[i] \notin TSpecials \cup {" "}

\* the media type proper: token, or token "/" token
IsMediaType(s) ==
    LET slash == Index(s, "/")
    IN  IF slash = 0 THEN IsToken(s)
        ELSE /\ IsToken(SubSeq(s, 1, slash - 1))
             /\ IsToken(SubSeq(s, slash + 1, Len(s)))

\* one ";"-separated parameter: key "=" value, the value a token or a
\* quoted string
ParamOf(seg) ==
    LET t == TrimSpace(seg)
        eq == Index(t, "=")
        key == ToLower(SubSeq(t, 1, eq - 1))
        raw == SubSeq(t, eq + 1, Len(t))
        quoted == Len(raw) >= 2 /\ raw[1] = "\"" /\ raw[Len(raw)] = "\""
    IN  IF eq = 0 \/ ~IsToken(key) THEN [ok |-> FALSE, key |-> << >>, value |-> << >>]
        ELSE IF quoted
        THEN [ok |-> TRUE, key |-> key, value |-> SubSeq(raw, 2, Len(raw) - 1)]
        ELSE [ok |-> IsToken(raw), key |-> key, value |-> raw]

\* mime.ParseMediaType: the lower-cased media type and the boundary
\* parameter; a lone trailing ";" is tolerated, a duplicate key is an error
ParseMediaType(v) ==
    LET segs == Split(v, ";")
        mediatype == TrimSpace(ToLower(segs[1]))
        n == Len(segs)
        last_empty == n >= 2 /\ TrimSpace(segs[n]) = << >>
        idx == IF last_empty THEN 2..(n - 1) ELSE 2..n
        params == [i \in idx |-> ParamOf(segs[i])]
        bs == {i \in idx : params[i].key = <<"b","o","u","n","d","a","r","y">>}
    IN  IF ~IsMediaType(mediatype)
        THEN [err |-> TRUE, mediaType |-> << >>, boundary |-> << >>]
        ELSE IF \/ \E i \in idx : ~params[i].ok
                \/ \E i, j \in idx : i # j /\ params[i].key = params[j].key
        THEN [err |-> TRUE, mediaType |-> mediatype, boundary |-> << >>]
        ELSE [err |-> FALSE, mediaType |-> mediatype,
              boundary |-> IF bs = {} THEN << >>
                           ELSE params[CHOOSE i \in bs : TRUE].value]

\* mime.WordDecoder.DecodeHeader on a header that is one RFC 2047 encoded
\* word "=?charset?q?text?=" or holds none: Q-decoding maps "_" to a space;
\* an unknown charset is an error
DecodeHeader(header) ==
    LET parts == Split(header, "?")
        utf8 == <<"u","t","f","-","8">>
        word == /\ Len(parts) = 5
                /\ parts[1] = <<"=">>
                /\ parts[5] = <<"=">>
                /\ ToLower(parts[3]) = <<"q">>
    IN  IF ~word THEN [err |-> FALSE, decoded |-> header]
        ELSE IF ToLower(parts[2]) # utf8 THEN [err |-> TRUE, decoded |-> << >>]
        ELSE [err |-> FALSE,
              decoded |-> [i \in 1..Len(parts[4]) |->
                              IF parts[4][i] = "_" THEN " " ELSE parts[4][i]]]

\* decodeHeader: the decoded header, the raw header when decoding fails
decodeHeader(header) ==
    LET dec == DecodeHeader(header)
    IN  IF dec.err THEN header ELSE dec.decoded

-----------------------------------------------------------------------------
(* package net/mail: addresses *)

AddrSpecials == {"(", ")", "<", ">", "[", "]", ":", ";", "@", "\\", ",", "\"", " "}

\* local-part "@" domain, both dot-atoms; the domain has no empty label
IsAddrSpec(a) ==
    LET at == Index(a, "@")
        localpart == SubSeq(a, 1, at - 1)
        domain == SubSeq(a, at + 1, Len(a))
    IN  /\ at # 0
        /\ localpart # << >>
        /\ domain # << >>
        /\ \A i \in 1..Len(localpart) : localpart[i] \notin AddrSpecials
        /\ \A i \in 1..Len(domain) : domain[i] \notin AddrSpecials
        /\ domain[1] # "." /\ domain[Len(domain)] # "."
        /\ ~Contains(domain, <<".", ".">>)

\* a display name: atoms separated by spaces
IsPhrase(name) ==
    \A i \in 1..Len(name) : name[i] \notin (AddrSpecials \ {" "}) \cup {"."}

\* mail.ParseAddress: "addr-spec", "<addr-spec>" or "display name <addr-spec>"
ParseAddress(address) ==
    LET t == TrimSpace(address)
        lt == Index(t, "<")
        name == TrimSpace(SubSeq(t, 1, lt - 1))
        spec == SubSeq(t, lt + 1, Len(t) - 1)
    IN  IF t = << >> THEN [err |-> TRUE, Name |-> << >>, Address |-> << >>]
        ELSE IF lt # 0
        THEN IF t[Len(t)] = ">" /\ IsAddrSpec(spec) /\ IsPhrase(name)
             THEN [err |-> FALSE, Name |-> name, Address |-> spec]
             ELSE [err |-> TRUE, Name |-> << >>, Address |-> << >>]
        ELSE IF IsAddrSpec(t)
        THEN [err |-> FALSE, Name |-> << >>, Address |-> t]
        ELSE [err |-> TRUE, Name |-> << >>, Address |-> << >>]

-----------------------------------------------------------------------------
(* package mime/multipart *)

\* ReadParts keeping the first part of each type
RECURSIVE ReadParts_FirstWins(_, _, _, _, _)
ReadParts_FirstWins(body, boundary, i, textContent, htmlContent) ==
    LET delims == {j \in 1..Len(body) : body[j].k = "delim" /\ body[j].v = boundary}
        d == FirstIn(delims, i)
        hb == ReadHeaderBlock(body, d + 1)
        n == FirstIn(delims, hb.end + 1)
        partContentType == Get(hb.fields, "Content-Type")
        partBody == SubSeq(body, hb.end + 1, n - 1)
    IN  IF d = 0
        THEN [err |-> TRUE, textContent |-> textContent, htmlContent |-> htmlContent]
        ELSE IF body[d].close \/ hb.status = "eof"
        THEN [err |-> FALSE, textContent |-> textContent, htmlContent |-> htmlContent]
        ELSE IF hb.status = "bad"
        THEN [err |-> TRUE, textContent |-> textContent, htmlContent |-> htmlContent]
        ELSE IF n = 0
        THEN ReadParts_FirstWins(body, boundary, Len(body) + 1, textContent, htmlContent)
        ELSE IF Contains(partContentType, <<"t","e","x","t","/","p","l","a","i","n">>)
        THEN ReadParts_FirstWins(body, boundary, n,
                                 IF textContent = << >> THEN partBody ELSE textContent,
                                 htmlContent)
        ELSE IF Contains(partContentType, <<"t","e","x","t","/","h","t","m","l">>)
        THEN ReadParts_FirstWins(body, boundary, n, textContent,
                                 IF htmlContent = << >> THEN partBody ELSE htmlContent)
        ELSE ReadParts_FirstWins(body, boundary, n, textContent, htmlContent)

\* the parts loop of handleMultipart over multipart.Reader, from line i on:
\* NextPart skips to the next "--boundary" line; the closing delimiter, or
\* an input that ends inside a part's header block, is io.EOF; an input
\* that ends before a delimiter is an error; a part whose body runs to the
\* end of the input fails to read and is skipped
RECURSIVE ReadParts(_, _, _, _, _)
ReadParts(body, boundary, i, textContent, htmlContent) ==
    LET delims == {j \in 1..Len(body) : body[j].k = "delim" /\ body[j].v = boundary}
        d == FirstIn(delims, i)
        hb == ReadHeaderBlock(body, d + 1)
        n == FirstIn(delims, hb.end + 1)
        partContentType == Get(hb.fields, "Content-Type")
        partBody == SubSeq(body, hb.end + 1, n - 1)
    IN  IF d = 0
        THEN [err |-> TRUE, textContent |-> textContent, htmlContent |-> htmlContent]
        ELSE IF body[d].close \/ hb.status = "eof"
        THEN [err |-> FALSE, textContent |-> textContent, htmlContent |-> htmlContent]
        ELSE IF hb.status = "bad"
        THEN [err |-> TRUE, textContent |-> textContent, htmlContent |-> htmlContent]
        ELSE IF n = 0
        THEN ReadParts(body, boundary, Len(body) + 1, textContent, htmlContent)
        ELSE IF Contains(partContentType, <<"t","e","x","t","/","p","l","a","i","n">>)
        THEN ReadParts(body, boundary, n, partBody, htmlContent)
        ELSE IF Contains(partContentType, <<"t","e","x","t","/","h","t","m","l">>)
        THEN ReadParts(body, boundary, n, textContent, partBody)
        ELSE ReadParts(body, boundary, n, textContent, htmlContent)

-----------------------------------------------------------------------------
(* The delivery translator *)

NewContent(type, value) == [Type |-> type, Value |-> value]

\* partsContent attaching the candidates read before a NextPart error
partsContent_AddsEarly(rp) ==
    LET html == IF rp.htmlContent # << >>
                THEN << NewContent("text/html", rp.htmlContent) >> ELSE << >>
        text == IF rp.textContent # << >>
                THEN << NewContent("text/plain", rp.textContent) >> ELSE << >>
    IN  IF rp.err
        THEN [err |-> Err("multipart: NextPart"), added |-> html \o text]
        ELSE [err |-> IF rp.textContent = << >> /\ rp.htmlContent = << >>
                      THEN Err("no text or html content found") ELSE Nil,
              added |-> html \o text]

\* handleMultipart from the outcome of its parts loop: an error of NextPart
\* returns at once; otherwise html, then text, are added when non-empty,
\* and the error is "no content" when both are empty
partsContent(rp) ==
    LET html == IF rp.htmlContent # << >>
                THEN << NewContent("text/html", rp.htmlContent) >> ELSE << >>
        text == IF rp.textContent # << >>
                THEN << NewContent("text/plain", rp.textContent) >> ELSE << >>
    IN  IF rp.err
        THEN [err |-> Err("multipart: NextPart"), added |-> << >>]
        ELSE [err |-> IF rp.textContent = << >> /\ rp.htmlContent = << >>
                      THEN Err("no text or html content found") ELSE Nil,
              added |-> html \o text]

\* handleMultipart from the parsed media type on
multipartContent(body, mt) ==
    IF mt.err
    THEN [err |-> Err("mime: invalid media type"), added |-> << >>]
    ELSE IF ~HasPrefix(mt.mediaType, <<"m","u","l","t","i","p","a","r","t","/">>)
    THEN [err |-> Err("not a multipart message"), added |-> << >>]
    ELSE IF mt.boundary = << >>
    THEN [err |-> Err("no boundary found"), added |-> << >>]
    ELSE partsContent(ReadParts(body, mt.boundary, 1, << >>, << >>))

\* Session.handleMultipart: the error it returns and the content blocks it
\* has added to the message by then
handleMultipart(body, contentType) ==
    multipartContent(body, ParseMediaType(contentType))

\* withFallback adding the raw body whatever handleMultipart returned
withFallback_Always(hm, body) ==
    hm.added \o << NewContent("text/plain", body) >>

\* the multipart branch of sendViaSendGrid: on an error of handleMultipart
\* the raw body is added as text/plain
withFallback(hm, body) ==
    IF hm.err # Nil
    THEN hm.added \o << NewContent("text/plain", body) >>
    ELSE hm.added

\* buildContent sending every non-multipart body as text/plain
buildContent_HtmlAsPlain(body, contentType) ==
    IF Contains(contentType, <<"m","u","l","t","i","p","a","r","t","/">>)
    THEN withFallback(handleMultipart(body, contentType), body)
    ELSE << NewContent("text/plain", body) >>

\* the content blocks sendViaSendGrid attaches
buildContent(body, contentType) ==
    IF Contains(contentType, <<"m","u","l","t","i","p","a","r","t","/">>)
    THEN withFallback(handleMultipart(body, contentType), body)
    ELSE IF Contains(contentType, <<"t","e","x","t","/","h","t","m","l">>)
    THEN << NewContent("text/html", body) >>
    ELSE << NewContent("text/plain", body) >>

\* an address record from ParseAddress, or from the raw address without
\* angle brackets when parsing failed
emailOf(address, parsed) ==
    IF parsed.err
    THEN [Name |-> << >>, Address |-> Trim(address, {"<", ">"})]
    ELSE [Name |-> parsed.Name, Address |-> parsed.Address]

\* mail.ParseAddress with its fallback, as for the sender and each recipient
toEmail(address) == emailOf(address, ParseAddress(address))

\* sendError with the status test off by one
sendError_Above400(resp) ==
    IF resp.terr THEN Err("sendgrid API error")
    ELSE IF resp.status > 400 THEN ErrStatus(resp.status, resp.body)
    ELSE Nil

\* the error sendViaSendGrid returns for the answer of client.Send
sendError(resp) ==
    IF resp.terr THEN Err("sendgrid API error")
    ELSE IF resp.status >= 400 THEN ErrStatus(resp.status, resp.body)
    ELSE Nil

\* sendCalls submitting again after a failed attempt
sendCalls_Retry(message, resp) ==
    IF resp.terr \/ resp.status >= 400 THEN << message, message >> ELSE << message >>

\* the messages sendViaSendGrid hands to client.Send, in order
sendCalls(message, resp) == << message >>

\* sendViaSendGrid from the built message on
send(message, resp) ==
    [err |-> sendError(resp),
     built |-> << message >>,
     submitted |-> sendCalls(message, resp)]

\* Session.sendViaSendGrid
sendViaSendGrid(from, to, subject, body, contentType, resp) ==
    send([from |-> toEmail(from),
          tos |-> [i \in 1..Len(to) |-> toEmail(to[i])],
          subject |-> subject,
          content |-> buildContent(body, contentType)],
         resp)

\* truncate, on the bytes of the string
truncate(s, maxLen) ==
    IF Len(s) <= maxLen THEN s
    ELSE SubSeq(s, 1, maxLen) \o <<".", ".", ".">>

\* the length Data passes to truncate for the subject it logs
SubjectLogMax == 50

\* the arguments of the "Email sent successfully" record
successLog(sn, subject) ==
    [from |-> sn.from, to |-> sn.to,
     subject |-> truncate(Bytes(subject), SubjectLogMax)]

\* Data returning an error before anything is sent
dataFailed(sn, kind) ==
    [err |-> Err(kind), sess |-> sn, built |-> << >>, submitted |-> << >>,
     log |-> << >>]

\* dataSent ending the transaction after a successful send
dataSent_EndsTransaction(sn, sent) ==
    [err |-> sent.err,
     sess |-> IF sent.err = Nil THEN ResetStep(sn) ELSE sn,
     built |-> sent.built, submitted |-> sent.submitted,
     log |-> IF sent.err = Nil
             THEN << successLog(sn, sent.built[1].subject) >> ELSE << >>]

\* Data returning what sendViaSendGrid returned; the success record is
\* logged when that is no error
dataSent(sn, sent) ==
    [err |-> sent.err, sess |-> sn, built |-> sent.built, submitted |-> sent.submitted,
     log |-> IF sent.err = Nil
             THEN << successLog(sn, sent.built[1].subject) >> ELSE << >>]

\* dataParsed going on with the empty message when the payload does not parse
dataParsed_IgnoreParseError(sn, in, msg) ==
    IF in.berr THEN dataFailed(sn, "failed to read email body")
    ELSE dataSent(sn, sendViaSendGrid(Get(msg.Header, "From"), sn.to,
                                      decodeHeader(Get(msg.Header, "Subject")),
                                      msg.Body, Get(msg.Header, "Content-Type"),
                                      in.resp))

\* Session.Data from the result of mail.ReadMessage on
dataParsed(sn, in, msg) ==
    IF msg.err THEN dataFailed(sn, "failed to parse email")
    ELSE IF in.berr THEN dataFailed(sn, "failed to read email body")
    ELSE dataSent(sn, sendViaSendGrid(Get(msg.Header, "From"), sn.to,
                                      decodeHeader(Get(msg.Header, "Subject")),
                                      msg.Body, Get(msg.Header, "Content-Type"),
                                      in.resp))

\* Session.Data on the reader's outcome: the returned error, the session
\* it leaves, the send request built and the requests submitted
DataStep(sn, in) ==
    IF in.rerr THEN dataFailed(sn, "failed to read email data")
    ELSE dataParsed(sn, in, ReadMessage(in.data))

-----------------------------------------------------------------------------
(* Inputs of Data *)

text_plain == <<"t","e","x","t","/","p","l","a","i","n">>
text_html == <<"t","e","x","t","/","h","t","m","l">>
image_png == <<"i","m","a","g","e","/","p","n","g">>
mp_alt_x == <<"m","u","l","t","i","p","a","r","t","/","a","l","t","e","r","n","a","t","i","v","e",";"," ","b","o","u","n","d","a","r","y","=","x">>
mp_upper_x == <<"M","u","l","t","i","p","a","r","t","/","A","l","t","e","r","n","a","t","i","v","e",";"," ","b","o","u","n","d","a","r","y","=","x">>
mp_mixed == <<"m","u","l","t","i","p","a","r","t","/","m","i","x","e","d">>
mp_bad_param == <<"m","u","l","t","i","p","a","r","t","/","m","i","x","e","d",";"," ","b","o","u","n","d","a","r","y">>
html_note == <<"t","e","x","t","/","h","t","m","l",";"," ","n","o","t","e","=","\"","m","u","l","t","i","p","a","r","t","/","x","\"">>
html_named == <<"t","e","x","t","/","h","t","m","l",";"," ","n","a","m","e","=","\"","t","e","x","t","/","p","l","a","i","n","\"">>
Hi == <<"H","i">>
hello == <<"h","e","l","l","o">>
bye == <<"b","y","e">>
p_hello == <<"<","p",">","h","e","l","l","o","<","/","p",">">>
p_bye == <<"<","p",">","b","y","e","<","/","p",">">>
subject_q == <<"=","?","u","t","f","-","8","?","q","?","H","i","_","y","o","u","?","=">>
subject_bad == <<"=","?","l","a","t","i","n","-","9","?","q","?","H","i","?","=">>
Bob_a_b_com == <<"B","o","b"," ","<","a","@","b",".","c","o","m",">">>
a_b_com_open == <<"<","a","@","b",".","c","o","m">>
rate_limited == <<"r","a","t","e"," ","l","i","m","i","t","e","d">>
bad_request == <<"b","a","d"," ","r","e","q","u","e","s","t">>

bx == <<"x">>

\* scenario A: no From header, plain text
MsgA == << Hdr("Subject", Hi), Hdr("Content-Type", text_plain), Blank, Text(hello) >>

MsgHtml == << Hdr("From", Bob_a_b_com), Hdr("Subject", subject_q),
              Hdr("Content-Type", text_html), Blank, Text(p_hello) >>

\* a header block and an empty body
MsgEmpty == << Hdr("From", x_evil_com), Hdr("Subject", subject_bad),
               Hdr("Content-Type", text_plain), Blank >>

\* no Content-Type, a From that does not parse
MsgNoType == << Hdr("From", a_b_com_open), Blank, Text(hello), Text(bye) >>

\* subjects of 51 and of 50 ASCII characters, and of 30 characters U+00E9
subject_51 == [i \in 1..51 |-> "s"]
subject_50 == [i \in 1..50 |-> "s"]
subject_accents == [i \in 1..30 |-> eacute]

MsgLong == << Hdr("From", a_b_com), Hdr("Subject", subject_51), Blank, Text(hello) >>

MsgFifty == << Hdr("From", a_b_com), Hdr("Subject", subject_50), Blank, Text(hello) >>

MsgAccents == << Hdr("From", a_b_com), Hdr("Subject", subject_accents), Blank, Text(hello) >>

\* not an RFC 5322 message: a line that is no header field
MsgBad == << Text(hello), Blank, Text(bye) >>

MsgNone == << >>

\* text/html whose parameter mentions "multipart/"
MsgHtmlNote == << Hdr("From", a_b_com), Hdr("Content-Type", html_note), Blank, Text(p_hello) >>

MpBody == << Delim(bx), Hdr("Content-Type", text_plain), Blank, Text(hello),
             Delim(bx), Hdr("Content-Type", text_html), Blank, Text(p_hello),
             DelimEnd(bx) >>

MpBoth == << Hdr("From", a_b_com), Hdr("Content-Type", mp_alt_x), Blank >> \o MpBody

MpUpper == << Hdr("From", a_b_com), Hdr("Content-Type", mp_upper_x), Blank >> \o MpBody

\* several parts of each type
MpDup == << Hdr("From", a_b_com), Hdr("Content-Type", mp_alt_x), Blank,
            Delim(bx), Hdr("Content-Type", text_html), Blank, Text(p_hello),
            Delim(bx), Hdr("Content-Type", text_plain), Blank, Text(hello),
            Delim(bx), Hdr("Content-Type", text_plain), Blank, Text(bye),
            Delim(bx), Hdr("Content-Type", text_html), Blank, Text(p_bye),
            DelimEnd(bx) >>

\* an html part whose Content-Type names a file "text/plain", after a text
\* and an html part
MpNamed == << Hdr("From", a_b_com), Hdr("Content-Type", mp_alt_x), Blank,
              Delim(bx), Hdr("Content-Type", text_plain), Blank, Text(hello),
              Delim(bx), Hdr("Content-Type", text_html), Blank, Text(p_hello),
              Delim(bx), Hdr("Content-Type", html_named), Blank, Text(p_bye),
              DelimEnd(bx) >>

\* no boundary parameter
MpNoBoundary == << Hdr("From", a_b_com), Hdr("Content-Type", mp_mixed), Blank >> \o MpBody

\* a media type that does not parse
MpBadParam == << Hdr("From", a_b_com), Hdr("Content-Type", mp_bad_param), Blank >> \o MpBody

\* the input ends inside the second part
MpTrunc == << Hdr("From", a_b_com), Hdr("Content-Type", mp_alt_x), Blank,
              Delim(bx), Hdr("Content-Type", text_plain), Blank, Text(hello),
              Delim(bx), Hdr("Content-Type", text_html), Blank, Text(p_hello) >>

\* a part with a malformed header block after a text part
MpBadPart == << Hdr("From", a_b_com), Hdr("Content-Type", mp_alt_x), Blank,
                Delim(bx), Hdr("Content-Type", text_plain), Blank, Text(hello),
                Delim(bx), Text(bye), Blank, Text(p_hello),
                DelimEnd(bx) >>

\* no text and no html part
MpNoText == << Hdr("From", a_b_com), Hdr("Content-Type", mp_alt_x), Blank,
               Delim(bx), Hdr("Content-Type", image_png), Blank, Text(bye),
               DelimEnd(bx) >>

\* multipart with an empty body
MpEmptyBody == << Hdr("From", a_b_com), Hdr("Content-Type", mp_alt_x), Blank >>

\* an empty text part next to an html part
MpEmptyPart == << Hdr("From", a_b_com), Hdr("Content-Type", mp_alt_x), Blank,
                  Delim(bx), Hdr("Content-Type", text_plain), Blank,
                  Delim(bx), Hdr("Content-Type", text_html), Blank, Text(p_hello),
                  DelimEnd(bx) >>

Messages ==
    { MsgA, MsgHtml, MsgEmpty, MsgNoType, MsgBad, MsgNone, MsgHtmlNote,
      MsgLong, MsgFifty, MsgAccents,
      MpBoth, MpUpper, MpDup, MpNamed, MpNoBoundary, MpBadParam, MpTrunc, MpBadPart,
      MpNoText, MpEmptyBody, MpEmptyPart }

\* what client.Send returns: a transport error, or a status and a body
NoResp == [terr |-> FALSE, status |-> 0, body |-> << >>]
Accepted == [terr |-> FALSE, status |-> 202, body |-> << >>]

Responses ==
    { Accepted,
      [terr |-> TRUE, status |-> 0, body |-> << >>],
      [terr |-> FALSE, status |-> 200, body |-> << >>],
      [terr |-> FALSE, status |-> 399, body |-> << >>],
      [terr |-> FALSE, status |-> 400, body |-> bad_request],
      [terr |-> FALSE, status |-> 500, body |-> rate_limited] }

DataIn(data, rerr, berr, resp) ==
    [data |-> data, rerr |-> rerr, berr |-> berr, resp |-> resp]

NoInput == DataIn(<< >>, FALSE, FALSE, NoResp)

\* every message with an accepting provider, two messages with every
\* answer of the provider, and the two read failures
DataInputs ==
    {DataIn(m, FALSE, FALSE, Accepted) : m \in Messages}
      \cup {DataIn(m, FALSE, FALSE, r) : m \in {MsgA, MpTrunc}, r \in Responses}
      \cup {DataIn(MsgA, TRUE, FALSE, Accepted), DataIn(MsgA, FALSE, TRUE, Accepted)}

-----------------------------------------------------------------------------
(* The state machine: one action per callback *)

Outcome(op, s, arg, in, err, built, submitted) ==
    [op |-> op, s |-> s, arg |-> arg, in |-> in, err |-> err,
     built |-> built, submitted |-> submitted, log |-> << >>]

\* rcpts: the Rcpt arguments since the last Reset; txn: the outcome of the
\* last Mail since then; cleared: a Reset has discarded recipients
NoGhost == [rcpts |-> << >>, txn |-> "idle", cleared |-> FALSE]

Init ==
    /\ config \in {loadConfig(e) : e \in EnvAllowed}
    /\ sess = [s \in SessionIds |-> NoSession]
    /\ last = Outcome("main", "", << >>, NoInput, Nil, << >>, << >>)
    /\ ghost = [s \in SessionIds |-> NoGhost]

NewSession(s) ==
    /\ ~sess[s].live
    /\ sess' = [sess EXCEPT ![s] = NewSessionValue]
    /\ last' = Outcome("NewSession", s, << >>, NoInput, Nil, << >>, << >>)
    /\ ghost' = [ghost EXCEPT ![s] = NoGhost]
    /\ UNCHANGED config

AuthPlain(s, username, password) ==
    /\ sess[s].live
    /\ \E r \in {AuthPlainStep(sess[s], username, password)} :
           /\ sess' = [sess EXCEPT ![s] = r.sess]
           /\ last' = Outcome("AuthPlain", s, username, NoInput, r.err, << >>, << >>)
    /\ UNCHANGED <<config, ghost>>

Mail(s, from) ==
    /\ sess[s].live
    /\ \E r \in {MailStep(config, sess[s], from)} :
           /\ sess' = [sess EXCEPT ![s] = r.sess]
           /\ last' = Outcome("Mail", s, from, NoInput, r.err, << >>, << >>)
           /\ ghost' = [ghost EXCEPT ![s].txn = IF r.err = Nil THEN "mail" ELSE "rejected"]
    /\ UNCHANGED config

\* Rcpt with the recipient list held by the Backend: the address is
\* appended for every live session
Rcpt_SharedList(s, to) ==
    /\ sess[s].live
    /\ Len(sess[s].to) < MaxRcpt
    /\ sess' = [t \in SessionIds |->
                   IF sess[t].live /\ Len(sess[t].to) < MaxRcpt
                   THEN RcptStep(sess[t], to).sess ELSE sess[t]]
    /\ last' = Outcome("Rcpt", s, to, NoInput, Nil, << >>, << >>)
    /\ ghost' = [ghost EXCEPT ![s].rcpts = Append(@, to)]
    /\ UNCHANGED config

Rcpt(s, to) ==
    /\ sess[s].live
    /\ Len(sess[s].to) < MaxRcpt
    /\ \E r \in {RcptStep(sess[s], to)} :
           /\ sess' = [sess EXCEPT ![s] = r.sess]
           /\ last' = Outcome("Rcpt", s, to, NoInput, r.err, << >>, << >>)
    /\ ghost' = [ghost EXCEPT ![s].rcpts = Append(@, to)]
    /\ UNCHANGED config

Data(s, in) ==
    /\ sess[s].live
    /\ \E r \in {DataStep(sess[s], in)} :
           /\ sess' = [sess EXCEPT ![s] = r.sess]
           /\ last' = [Outcome("Data", s, << >>, in, r.err, r.built, r.submitted)
                          EXCEPT !.log = r.log]
    /\ UNCHANGED <<config, ghost>>

Reset(s) ==
    /\ sess[s].live
    /\ sess' = [sess EXCEPT ![s] = ResetStep(sess[s])]
    /\ last' = Outcome("Reset", s, << >>, NoInput, Nil, << >>, << >>)
    /\ ghost' = [ghost EXCEPT ![s] =
                    [NoGhost EXCEPT !.cleared = ghost[s].cleared \/ ghost[s].rcpts # << >>]]
    /\ UNCHANGED config

Logout(s) ==
    /\ sess[s].live
    /\ \E r \in {LogoutStep(sess[s])} :
           /\ sess' = [sess EXCEPT ![s] = r.sess]
           /\ last' = Outcome("Logout", s, << >>, NoInput, r.err, << >>, << >>)
    /\ UNCHANGED <<config, ghost>>

Next ==
    \/ \E s \in Sessions : NewSession(s)
    \/ \E s \in Sessions, u \in Credentials, p \in Credentials : AuthPlain(s, u, p)
    \/ \E s \in Sessions, from \in Senders : Mail(s, from)
    \/ \E s \in Sessions, to \in Recipients : Rcpt(s, to)
    \/ \E s \in Sessions, in \in DataInputs : Data(s, in)
    \/ \E s \in Sessions : Reset(s)
    \/ \E s \in Sessions : Logout(s)

Spec == Init /\ [][Next]_vars

-----------------------------------------------------------------------------
(* The allow-list check on generated senders *)

DomChars == {"b", "B", "."}

\* bracketed senders: the domain a member of the list, and a subdomain of one
BracketedSenders ==
    { <<"<","U","@","b",">">>, <<"<","U","@","B",".","b",">">> }

\* senders u@x and u@x> for every x over DomChars of length 1..MaxDomLen,
\* and the bracketed ones
WideSenders ==
    {<<"u", "@">> \o x \o t : x \in SeqsUpTo(DomChars, MaxDomLen), t \in {<< >>, <<">">>}}
      \cup BracketedSenders

WideEnvAllowed ==
    { << >>,
      <<"b">>,
      <<"B",".","b",","," ","b","b">> }

InitMail ==
    /\ config \in {loadConfig(e) : e \in WideEnvAllowed}
    /\ sess = [s \in SessionIds |-> NoSession]
    /\ last = Outcome("main", "", << >>, NoInput, Nil, << >>, << >>)
    /\ ghost = [s \in SessionIds |-> NoGhost]

NextMail ==
    \/ \E s \in Sessions : NewSession(s)
    \/ \E s \in Sessions, from \in WideSenders : Mail(s, from)
    \/ \E s \in Sessions : Reset(s)

SpecMail == InitMail /\ [][NextMail]_vars

-----------------------------------------------------------------------------
(* Two connections served by the same Backend *)

SendersTwo == { a_b_com, x_evil_com }

DataInputsTwo == { DataIn(MsgA, FALSE, FALSE, Accepted) }

\* the callbacks of both connections, interleaved in any order
NextTwo ==
    \/ \E s \in SessionIds : NewSession(s)
    \/ \E s \in SessionIds, u \in Credentials, p \in Credentials : AuthPlain(s, u, p)
    \/ \E s \in SessionIds, from \in SendersTwo : Mail(s, from)
    \/ \E s \in SessionIds, to \in Recipients : Rcpt(s, to)
    \/ \E s \in SessionIds, in \in DataInputsTwo : Data(s, in)
    \/ \E s \in SessionIds : Reset(s)
    \/ \E s \in SessionIds : Logout(s)

SpecTwo == Init /\ [][NextTwo]_vars

-----------------------------------------------------------------------------
(* Properties *)

\* the last callback was Data and it built a send request
Built == last.op = "Data" /\ last.built # << >>

\* the last callback was Data and it handed a request to the provider
Submitted == last.op = "Data" /\ last.submitted # << >>

\* C1: whenever Data builds a send request, the session's recipient list is
\* non-empty and the last Mail of the transaction was accepted
C1_EnvelopeCompleteBeforeData ==
    Built => /\ sess[last.s].to # << >>
             /\ ghost[last.s].txn = "mail"

\* the part of a sender after its last "@"
DomainOf(from) == SubSeq(from, LastIndex(from, "@") + 1, Len(from))

DomainMatches(cfg, x) ==
    \E i \in 1..Len(cfg.AllowedSenders) : ToLower(x) = ToLower(cfg.AllowedSenders[i])

C3_RejectedMailKeepsSession ==
    [][(last'.op = "Mail" /\ last'.err # Nil) =>
          /\ last'.err = Err("sender domain not allowed")
          /\ sess' = sess
          /\ (last'.arg # << >> => sess'[last'.s].from # last'.arg)]_vars

\* a rejected Mail on a session that holds a sender and recipients
C3_Witness ==
    /\ last.op = "Mail"
    /\ last.err = Err("sender domain not allowed")
    /\ sess[last.s].from # << >>
    /\ sess[last.s].to # << >>

\* C4: for Mail(a), Rcpt(c), Data(scenario A message) with the provider
\* answering 202, Data succeeds and the request has from = a, to = [c],
\* the subject and one plain-text block with the body
C4_FromIsEnvelopeSender ==
    (/\ last.op = "Data"
     /\ last.in = DataIn(MsgA, FALSE, FALSE, Accepted)
     /\ ghost[last.s].txn = "mail"
     /\ Len(ghost[last.s].rcpts) = 1)
    => /\ last.err = Nil
       /\ Len(last.submitted) = 1
       /\ last.submitted[1].from.Address = toEmail(sess[last.s].from).Address
       /\ last.submitted[1].tos = << toEmail(ghost[last.s].rcpts[1]) >>
       /\ last.submitted[1].subject = Hi
       /\ last.submitted[1].content = << NewContent("text/plain", << Text(hello) >>) >>

\* C5: every content block of every submitted request has a non-empty body
C5_NoEmptyContentBlock ==
    \A i \in 1..Len(last.submitted) :
        \A j \in 1..Len(last.submitted[i].content) :
            last.submitted[i].content[j].Value # << >>

\* the Content-Type and the body Data passes to the translator
ContentTypeOf(data) == Get(ReadMessage(data).Header, "Content-Type")
BodyOf(data) == ReadMessage(data).Body

\* the payload takes the multipart path and that path fails
MultipartFails(data) ==
    /\ ~ReadMessage(data).err
    /\ Contains(ContentTypeOf(data), <<"m","u","l","t","i","p","a","r","t","/">>)
    /\ \/ ParseMediaType(ContentTypeOf(data)).err
       \/ ~HasPrefix(ParseMediaType(ContentTypeOf(data)).mediaType,
                     <<"m","u","l","t","i","p","a","r","t","/">>)
       \/ ParseMediaType(ContentTypeOf(data)).boundary = << >>
       \/ LET rp == ReadParts(BodyOf(data), ParseMediaType(ContentTypeOf(data)).boundary,
                              1, << >>, << >>)
          IN  rp.err \/ (rp.textContent = << >> /\ rp.htmlContent = << >>)

\* C6: when the multipart path fails the request is still submitted, with
\* exactly one content block: text/plain, holding the whole raw body
C6_MultipartFallback ==
    (/\ last.op = "Data"
     /\ ~last.in.rerr /\ ~last.in.berr
     /\ MultipartFails(last.in.data))
    => /\ Len(last.submitted) = 1
       /\ last.submitted[1].content =
              << NewContent("text/plain", BodyOf(last.in.data)) >>
       /\ (last.in.resp = Accepted => last.err = Nil)

\* the parts loop fails after it has read a text part
C6_Witness ==
    /\ last.op = "Data"
    /\ last.in.data = MpTrunc
    /\ last.in.resp = Accepted
    /\ last.err = Nil
    /\ Len(last.submitted) = 1
    /\ Len(last.submitted[1].content) = 1

\* C7: once a request is submitted, Data succeeds iff the transport
\* returned no error and the status is below 400; for a status of 400 or
\* above the error carries the status and the response body
C7_SuccessIffBelow400 ==
    Submitted =>
        /\ last.err = Nil <=> (~last.in.resp.terr /\ last.in.resp.status < 400)
        /\ (~last.in.resp.terr /\ last.in.resp.status >= 400) =>
               /\ last.err.kind = "sendgrid returned status"
               /\ last.err.status = last.in.resp.status
               /\ last.err.body = last.in.resp.body

\* the provider answers 400 and Data fails with that status and body
C7_Witness ==
    /\ Submitted
    /\ last.in.resp.status = 400
    /\ last.err = ErrStatus(400, bad_request)

\* C8: a Data invocation submits at most one request, also when the
\* provider fails, and no other callback submits one
C8_NoRetry ==
    /\ Len(last.submitted) <= 1
    /\ last.op # "Data" => last.submitted = << >>

\* the provider answers 500 and the request was submitted once
C8_Witness ==
    /\ Submitted
    /\ last.in.resp.status = 500
    /\ last.err = ErrStatus(500, rate_limited)
    /\ Len(last.submitted) = 1

\* C9: when the payload cannot be read, does not parse as a message, or
\* its body cannot be read, Data fails and builds and submits no request
C9_ParseFailureSendsNothing ==
    (/\ last.op = "Data"
     /\ (last.in.rerr \/ ReadMessage(last.in.data).err \/ last.in.berr))
    => /\ last.err # Nil
       /\ last.built = << >>
       /\ last.submitted = << >>

\* a payload that is no RFC 5322 message, on a session with recipients
C9_Witness ==
    /\ last.op = "Data"
    /\ last.in.data = MsgBad
    /\ ~last.in.rerr
    /\ last.err = Err("failed to parse email")
    /\ sess[last.s].to # << >>

\* C10: Reset leaves an empty sender and an empty recipient list, and a
\* request built afterwards names only recipients given to Rcpt since
C10_ResetClears ==
    /\ last.op = "Reset" =>
           sess[last.s].from = << >> /\ sess[last.s].to = << >>
    /\ Built =>
           /\ Len(last.built[1].tos) <= Len(ghost[last.s].rcpts)
           /\ \A i \in 1..Len(last.built[1].tos) :
                  \E j \in 1..Len(ghost[last.s].rcpts) :
                      last.built[1].tos[i] = toEmail(ghost[last.s].rcpts[j])

\* a request built for one recipient after a Reset that discarded others
C10_Witness ==
    /\ Built
    /\ ghost[last.s].cleared
    /\ Len(last.built[1].tos) = 1

\* C11: after a Data that completed a transaction (an accepted Mail, at
\* least one Rcpt) without error the session is idle: its sender and its
\* recipient list are empty, so the next transaction starts from no
\* recipients
C11_DataSuccessLeavesIdle ==
    (/\ last.op = "Data"
     /\ last.err = Nil
     /\ ghost[last.s].txn = "mail"
     /\ ghost[last.s].rcpts # << >>)
    => /\ sess[last.s].from = << >>
       /\ sess[last.s].to = << >>


\* the payload is a multipart message: its Content-Type parses to a
\* multipart/* media type (in any letter case) with a boundary
IsMultipartMessage(data) ==
    /\ ~ReadMessage(data).err
    /\ ~ParseMediaType(ContentTypeOf(data)).err
    /\ HasPrefix(ParseMediaType(ContentTypeOf(data)).mediaType,
                 <<"m","u","l","t","i","p","a","r","t","/">>)
    /\ ParseMediaType(ContentTypeOf(data)).boundary # << >>

BoundaryOf(data) == ParseMediaType(ContentTypeOf(data)).boundary

\* a multipart body of two parts and the closing delimiter
TwoParts(b, type1, body1, type2, body2) ==
    << Delim(b), Hdr("Content-Type", type1), Blank >> \o body1
      \o << Delim(b), Hdr("Content-Type", type2), Blank >> \o body2
      \o << DelimEnd(b) >>

PartBodies == { << Text(hello) >>, << Text(p_hello) >>, << Text(bye) >> }

\* C12: for a multipart message of one text/plain part and one text/html
\* part, in either order, the request carries exactly two content blocks:
\* text/html with the html part's body, then text/plain with the text
\* part's body
C12_BothPartsTwoBlocks ==
    \A t \in PartBodies, h \in PartBodies :
        (/\ last.op = "Data"
         /\ ~last.in.rerr /\ ~last.in.berr
         /\ IsMultipartMessage(last.in.data)
         /\ BodyOf(last.in.data) \in
                { TwoParts(BoundaryOf(last.in.data), text_plain, t, text_html, h),
                  TwoParts(BoundaryOf(last.in.data), text_html, h, text_plain, t) })
        => /\ Len(last.built) = 1
           /\ last.built[1].content =
                  << NewContent("text/html", h), NewContent("text/plain", t) >>


\* the payload is a message whose media type, the Content-Type up to the
\* first ";" in lower case, is not multipart/*
NonMultipart(data) ==
    /\ ~ReadMessage(data).err
    /\ ~HasPrefix(TrimSpace(ToLower(Split(ContentTypeOf(data), ";")[1])),
                  <<"m","u","l","t","i","p","a","r","t","/">>)

\* C13 as stated: a non-multipart message yields exactly one content block
\* holding the body verbatim, text/html when the Content-Type contains
\* "text/html" and text/plain otherwise
C13_OneBlockByContentType ==
    (/\ last.op = "Data"
     /\ ~last.in.rerr /\ ~last.in.berr
     /\ NonMultipart(last.in.data))
    => /\ Len(last.built) = 1
       /\ last.built[1].content =
              << NewContent(IF Contains(ContentTypeOf(last.in.data), text_html)
                            THEN "text/html" ELSE "text/plain",
                            BodyOf(last.in.data)) >>

\* C13, amended: a non-multipart message yields exactly one content block
\* holding the body verbatim, text/html when the Content-Type contains
\* "text/html" and does not contain "multipart/", text/plain otherwise
C13_OneBlockUnlessMultipartMentioned ==
    (/\ last.op = "Data"
     /\ ~last.in.rerr /\ ~last.in.berr
     /\ NonMultipart(last.in.data))
    => /\ Len(last.built) = 1
       /\ last.built[1].content =
              << NewContent(IF /\ Contains(ContentTypeOf(last.in.data), text_html)
                               /\ ~Contains(ContentTypeOf(last.in.data),
                                            <<"m","u","l","t","i","p","a","r","t","/">>)
                            THEN "text/html" ELSE "text/plain",
                            BodyOf(last.in.data)) >>

\* a text/html message whose Content-Type mentions "multipart/" in a
\* parameter is sent as one text/plain block
C13_Witness ==
    /\ last.op = "Data"
    /\ last.in.data = MsgHtmlNote
    /\ NonMultipart(last.in.data)
    /\ Len(last.built) = 1
    /\ last.built[1].content = << NewContent("text/plain", << Text(p_hello) >>) >>


\* C14: the to-list of a built request has one entry per Rcpt call since
\* the recipient list was last cleared, in the order of the calls,
\* duplicates included; the entry of a recipient that does not parse as an
\* address is the raw string without angle brackets and with no name, the
\* entry of any other recipient carries its parsed address
C14_ToListFollowsRcpts ==
    Built =>
        /\ Len(last.built[1].tos) = Len(ghost[last.s].rcpts)
        /\ \A i \in 1..Len(ghost[last.s].rcpts) :
               IF ParseAddress(ghost[last.s].rcpts[i]).err
               THEN last.built[1].tos[i] =
                        [Name |-> << >>,
                         Address |-> Trim(ghost[last.s].rcpts[i], {"<", ">"})]
               ELSE last.built[1].tos[i].Address =
                        ParseAddress(ghost[last.s].rcpts[i]).Address

\* a request for a recipient that does not parse, followed by one that does
C14_Witness ==
    /\ Built
    /\ ghost[last.s].rcpts = << nobody_br, c_d_com >>
    /\ last.built[1].tos =
           << [Name |-> << >>, Address |-> <<"n","o","b","o","d","y">>],
              [Name |-> << >>, Address |-> c_d_com] >>


\* C15: the configuration is never written after startup; a callback on
\* one session leaves every other session as it was; and a built request
\* names exactly the recipients given to Rcpt on its own session
C15_SessionsShareNothing ==
    /\ [][/\ config' = config
          /\ \A t \in SessionIds : t # last'.s => sess'[t] = sess[t]]_vars
    /\ [](Built =>
              last.built[1].tos =
                  [i \in 1..Len(ghost[last.s].rcpts) |-> toEmail(ghost[last.s].rcpts[i])])

\* a request built on one session while the other holds another recipient
C15_Witness ==
    /\ Built
    /\ last.s = "s2"
    /\ sess["s1"].live
    /\ sess["s1"].to = << c_d_com >>
    /\ sess["s2"].to = << nobody_br >>
    /\ Len(last.built[1].tos) = 1
    /\ last.built[1].tos[1].Address = <<"n","o","b","o","d","y">>


\* C16: every AuthPlain returns no error and leaves every session, its
\* sender and its recipient list, as it was
C16_AuthPlainNoEffect ==
    [][last'.op = "AuthPlain" => (last'.err = Nil /\ sess' = sess)]_vars

\* AuthPlain with an empty user name on a session that holds a sender and
\* recipients
C16_Witness ==
    /\ last.op = "AuthPlain"
    /\ last.arg = << >>
    /\ last.err = Nil
    /\ sess[last.s].from = a_b_com
    /\ sess[last.s].to = << c_d_com, nobody_br >>


\* the lines of body that open a part: the delimiter lines before the
\* closing delimiter
PartStarts(body, b) ==
    {j \in 1..Len(body) :
        /\ body[j] = Delim(b)
        /\ \A k \in 1..(j - 1) : body[k] # DelimEnd(b)}

\* the Content-Type of the part opened at line j, and its body: the lines
\* after its header block up to the next delimiter line
PartTypeAt(body, j) == Get(ReadHeaderBlock(body, j + 1).fields, "Content-Type")

PartBodyAt(body, b, j) ==
    LET from == ReadHeaderBlock(body, j + 1).end + 1
        next == CHOOSE k \in from..Len(body) :
                    /\ body[k].k = "delim" /\ body[k].v = b
                    /\ \A m \in from..(k - 1) : ~(body[m].k = "delim" /\ body[m].v = b)
    IN  SubSeq(body, from, next - 1)

\* the body of the last of the parts opened at the lines in starts, empty
\* when there is none
LastBody(body, b, starts) ==
    IF starts = {} THEN << >>
    ELSE PartBodyAt(body, b, CHOOSE j \in starts : \A k \in starts : k <= j)

\* the content blocks for an html and a text candidate: html first, an
\* empty candidate gives no block
BlocksOf(html, text) ==
    (IF html # << >> THEN << NewContent("text/html", html) >> ELSE << >>)
      \o (IF text # << >> THEN << NewContent("text/plain", text) >> ELSE << >>)

\* the multipart path is taken and succeeds
MultipartSucceeds(data) ==
    /\ IsMultipartMessage(data)
    /\ Contains(ContentTypeOf(data), <<"m","u","l","t","i","p","a","r","t","/">>)
    /\ ~MultipartFails(data)

\* C17 as stated: when the multipart path succeeds, the text block carries
\* the body of the last part whose Content-Type contains "text/plain" and
\* the html block the body of the last part whose Content-Type contains
\* "text/html"
C17_LastPartWins ==
    (/\ last.op = "Data"
     /\ ~last.in.rerr /\ ~last.in.berr
     /\ MultipartSucceeds(last.in.data))
    => /\ Len(last.built) = 1
       /\ last.built[1].content =
              BlocksOf(LastBody(BodyOf(last.in.data), BoundaryOf(last.in.data),
                                {j \in PartStarts(BodyOf(last.in.data), BoundaryOf(last.in.data)) :
                                    Contains(PartTypeAt(BodyOf(last.in.data), j), text_html)}),
                       LastBody(BodyOf(last.in.data), BoundaryOf(last.in.data),
                                {j \in PartStarts(BodyOf(last.in.data), BoundaryOf(last.in.data)) :
                                    Contains(PartTypeAt(BodyOf(last.in.data), j), text_plain)}))

\* C17, amended: when the multipart path succeeds, the text block carries
\* the body of the last part whose Content-Type contains "text/plain" and
\* the html block the body of the last part whose Content-Type contains
\* "text/html" and does not contain "text/plain"
C17_LastPartWinsPlainFirst ==
    (/\ last.op = "Data"
     /\ ~last.in.rerr /\ ~last.in.berr
     /\ MultipartSucceeds(last.in.data))
    => /\ Len(last.built) = 1
       /\ last.built[1].content =
              BlocksOf(LastBody(BodyOf(last.in.data), BoundaryOf(last.in.data),
                                {j \in PartStarts(BodyOf(last.in.data), BoundaryOf(last.in.data)) :
                                    /\ Contains(PartTypeAt(BodyOf(last.in.data), j), text_html)
                                    /\ ~Contains(PartTypeAt(BodyOf(last.in.data), j), text_plain)}),
                       LastBody(BodyOf(last.in.data), BoundaryOf(last.in.data),
                                {j \in PartStarts(BodyOf(last.in.data), BoundaryOf(last.in.data)) :
                                    Contains(PartTypeAt(BodyOf(last.in.data), j), text_plain)}))

\* two parts of each type: the request carries the later html part, then
\* the later text part
C17_Witness ==
    /\ last.op = "Data"
    /\ last.in.data = MpDup
    /\ MultipartSucceeds(last.in.data)
    /\ Len(last.built) = 1
    /\ last.built[1].content =
           << NewContent("text/html", << Text(p_bye) >>),
              NewContent("text/plain", << Text(bye) >>) >>


\* C18: the success record of Data carries the subject verbatim when it has
\* 50 characters or fewer, and otherwise its first 50 characters followed
\* by "..."
C18_SubjectLoggedUpTo50Chars ==
    (last.op = "Data" /\ last.log # << >>)
    => last.log[1].subject =
           Bytes(IF Len(last.built[1].subject) > SubjectLogMax
                 THEN SubSeq(last.built[1].subject, 1, SubjectLogMax) \o <<".", ".", ".">>
                 ELSE last.built[1].subject)


\* C19: no Data, successful or failed, changes any session: sender and
\* recipient list after the call are those before it
C19_DataKeepsSession ==
    [][last'.op = "Data" => sess' = sess]_vars

\* a successful Data on a session that still holds its sender and its two
\* recipients
C19_Witness ==
    /\ last.op = "Data"
    /\ last.err = Nil
    /\ last.submitted # << >>
    /\ sess[last.s].from = u_s_b_com_gt
    /\ sess[last.s].to = << c_d_com, c_d_com >>


\* C20: every submitted request carries one or two content blocks; two
\* blocks are a text/html block followed by a text/plain block; and a
\* request that carries the raw body as a text/plain block carries nothing
\* else
C20_OneOrTwoBlocks ==
    Submitted =>
        \A k \in 1..Len(last.submitted) :
            /\ Len(last.submitted[k].content) \in {1, 2}
            /\ Len(last.submitted[k].content) = 2 =>
                   /\ last.submitted[k].content[1].Type = "text/html"
                   /\ last.submitted[k].content[2].Type = "text/plain"
            /\ (\E j \in 1..Len(last.submitted[k].content) :
                    last.submitted[k].content[j] =
                        NewContent("text/plain", BodyOf(last.in.data)))
               => Len(last.submitted[k].content) = 1

\* a submitted request with the two blocks taken from the parts
C20_Witness ==
    /\ Submitted
    /\ last.in.data = MpBoth
    /\ Len(last.submitted[1].content) = 2
    /\ last.submitted[1].content[1] = NewContent("text/html", << Text(p_hello) >>)
    /\ last.submitted[1].content[2] = NewContent("text/plain", << Text(hello) >>)

====
